---- MODULE Spec2Model ----
(***************************************************************************)
(* A model of the ingestion orchestration subsystem of kaggle-harvester:   *)
(* Tracker, StateManager (with the state directory it writes),             *)
(* DownloadService and the IngestionService run loop.                      *)
(*                                                                         *)
(* Item references are strings in the program.  Here they are the numbers  *)
(* 1..NumRefs; the order of the numbers stands for the string order that   *)
(* sorted() uses.                                                          *)
(***************************************************************************)
EXTENDS Integers, Sequences, FiniteSets, TLC

\* ------------------------------------------------------------------ bounds
NumRefs == 2    \* item references
MaxCount == 1   \* cap of the run counters
MaxCalls == 4   \* calls a driver makes on the component under test
MaxBytes == 1   \* largest declared size of an item
MaxSpace == 2   \* largest free space the file store reports
MaxPolls == 2   \* poll cycles of one run
MaxList == 2    \* items in one catalog listing
Interval == 2   \* settings.polling.interval_seconds
MaxCrashes == 1 \* times the process is killed and started again
MaxTime == 6    \* seconds the clock runs
MinInterval == 2 \* settings.rate_limit.min_request_interval_seconds

Refs == 1..NumRefs
None == -1

\* ------------------------------------------------------- the state directory
\* A file is absent, holds a JSON document, or holds a strict prefix of one
\* (an interrupted write): a prefix of a JSON object never parses.
Absent == [kind |-> "absent"]
Partial == [kind |-> "partial"]
JsonFile(doc) == [kind |-> "json", doc |-> doc]

Exists(file) == file.kind # "absent"
Parses(file) == file.kind = "json"

Range(s) == {s[i] : i \in 1..Len(s)}

Min(S) == CHOOSE x \in S : \A y \in S : x <= y

\* sorted(list(processed_datasets))
RECURSIVE Sorted(_)
Sorted(S) == IF S = {} THEN <<>> ELSE <<Min(S)>> \o Sorted(S \ {Min(S)})

\* state_manager.py:69-79, the document save_state builds.
StateData(processed_datasets, stats) ==
    [processed_datasets |-> Sorted(processed_datasets),
     total_processed |-> Cardinality(processed_datasets),
     last_poll_timestamp |-> stats.last_poll_timestamp,
     successful_downloads |-> stats.successful_downloads,
     failed_downloads |-> stats.failed_downloads]

\* StateManager.__init__: the statistics of a new StateManager.
NewStateManager ==
    [successful_downloads |-> 0, failed_downloads |-> 0, last_poll_timestamp |-> None]

EmptyDisk == [state_file |-> Absent, backup_file |-> Absent, temp_file |-> Absent]

\* ------------------------------------------------------------- StateManager
\* StateManager._load_from_file: the result (None is ok = FALSE) and the
\* statistics afterwards.  A missing or unparsable file changes nothing.
\* 'if last_poll:' keeps the timestamp in memory when the file holds null.
LoadFromFile(file, stats) ==
    IF Parses(file)
    THEN [ok |-> TRUE,
          processed |-> Range(file.doc.processed_datasets),
          sm |-> [successful_downloads |-> file.doc.successful_downloads,
                  failed_downloads |-> file.doc.failed_downloads,
                  last_poll_timestamp |->
                      IF file.doc.last_poll_timestamp # None
                      THEN file.doc.last_poll_timestamp
                      ELSE stats.last_poll_timestamp]]
    ELSE [ok |-> FALSE, processed |-> {}, sm |-> stats]

\* shutil.copy2(src, dst), run to its end.
Copy2(d, src, dst) == [d EXCEPT ![dst] = d[src]]

\* StateManager.load_state: the returned set, the statistics and the state
\* directory afterwards.
LoadStateBackupFirst(d, stats) ==
    LET main == LoadFromFile(d.state_file, stats)
        bak == LoadFromFile(d.backup_file, stats)
    IN IF bak.ok THEN [processed |-> bak.processed, sm |-> bak.sm, disk |-> d, from |-> "backup"]
       ELSE IF main.ok THEN [processed |-> main.processed, sm |-> main.sm, disk |-> d, from |-> "main"]
       ELSE [processed |-> {}, sm |-> stats, disk |-> d, from |-> "none"]

LoadStateNoRepair(d, stats) ==
    LET main == LoadFromFile(d.state_file, stats)
        bak == LoadFromFile(d.backup_file, stats)
    IN IF main.ok THEN [processed |-> main.processed, sm |-> main.sm, disk |-> d, from |-> "main"]
       ELSE IF bak.ok THEN [processed |-> bak.processed, sm |-> bak.sm, disk |-> d, from |-> "backup"]
       ELSE [processed |-> {}, sm |-> stats, disk |-> d, from |-> "none"]

LoadStateDistrustsCutBackup(d, stats) ==
    LET main == LoadFromFile(d.state_file, stats)
        bak == LoadFromFile(d.backup_file, stats)
    IN IF Exists(d.backup_file) /\ ~bak.ok
       THEN [processed |-> {}, sm |-> stats, disk |-> d, from |-> "none"]
       ELSE IF main.ok
       THEN [processed |-> main.processed, sm |-> main.sm, disk |-> d, from |-> "main"]
       ELSE IF bak.ok
       THEN [processed |-> bak.processed, sm |-> bak.sm, disk |-> d, from |-> "backup"]
       ELSE [processed |-> {}, sm |-> stats, disk |-> d, from |-> "none"]

LoadStateMergesFiles(d, stats) ==
    LET main == LoadFromFile(d.state_file, stats)
        bak == LoadFromFile(d.backup_file, stats)
    IN [processed |-> main.processed \cup bak.processed,
        sm |-> IF main.ok THEN main.sm ELSE bak.sm,
        disk |-> d,
        from |-> IF main.ok THEN "main" ELSE IF bak.ok THEN "backup" ELSE "none"]

LoadState(d, stats) ==
    LET main == LoadFromFile(d.state_file, stats)
        bak == LoadFromFile(d.backup_file, stats)
    IN IF main.ok
       THEN [processed |-> main.processed, sm |-> main.sm, disk |-> d, from |-> "main"]
       ELSE IF bak.ok
       THEN [processed |-> bak.processed, sm |-> bak.sm,
             disk |-> IF Exists(d.backup_file) THEN Copy2(d, "backup_file", "state_file") ELSE d,
             from |-> "backup"]
       ELSE [processed |-> {}, sm |-> stats, disk |-> d, from |-> "none"]

\* save_state, lines 62-66: 'if successful_downloads is not None: ...'
MergeStats(stats, successful_downloads, failed_downloads) ==
    [stats EXCEPT
        !.successful_downloads =
            IF successful_downloads # None THEN successful_downloads ELSE @,
        !.failed_downloads =
            IF failed_downloads # None THEN failed_downloads ELSE @]


\* save_state line 83, shutil.copy2(state_file, backup_file): the copy opens
\* the destination for writing (it is empty, then a prefix) and then fills it.
BackupOpen(d) == [d EXCEPT !.backup_file = Partial]
BackupByRename(d) == [d EXCEPT !.backup_file = d.state_file, !.state_file = Absent]
BackupNotFilled(d) == d
BackupDone(d) == Copy2(d, "state_file", "backup_file")

\* save_state lines 86-88: open(temp_file, 'w') truncates, json.dump fills.
TempOpenInPlace(d) == [d EXCEPT !.state_file = Partial]
TempOpen(d) == [d EXCEPT !.temp_file = Partial]
TempDone(d, state_data) == [d EXCEPT !.temp_file = JsonFile(state_data)]

\* save_state line 91, temp_file.replace(state_file): one atomic rename.
Rename(d) == [d EXCEPT !.state_file = d.temp_file, !.temp_file = Absent]


\* ------------------------------------------------------------------ Tracker
\* Tracker.is_new_dataset
is_new_dataset(T, r) == r \notin T

\* Tracker.mark_as_processed: the set afterwards, and whether the call raised.
MarkRaisesOnDuplicate(T, r) ==
    IF r \in T
    THEN [processed |-> T, raised |-> TRUE]
    ELSE [processed |-> T \cup {r}, raised |-> FALSE]

mark_as_processed(T, r) ==
    IF r \in T
    THEN [processed |-> T, raised |-> FALSE]
    ELSE [processed |-> T \cup {r}, raised |-> FALSE]

\* Tracker.get_all_processed: a copy of the set
get_all_processed(T) == T

ReturnedSetNotCopied(T) == [taken |-> TRUE, value |-> T, shared |-> TRUE]

\* Tracker.get_all_processed, line 66: the object returned, its members and
\* whether it is the object the Tracker itself keeps (it is .copy(), a new one)
ReturnedSet(T) == [taken |-> TRUE, value |-> get_all_processed(T), shared |-> FALSE]

LoadProcessedMerges(T, dataset_refs) == T \cup dataset_refs

\* Tracker.load_processed
load_processed(T, dataset_refs) == dataset_refs

\* Tracker.remove_processed: the set afterwards and the returned flag
remove_processed(T, r) ==
    IF r \in T
    THEN [processed |-> T \ {r}, removed |-> TRUE]
    ELSE [processed |-> T, removed |-> FALSE]


\* ---------------------------------------------------- FileStore, the client
\* An item's target directory: absent, present and empty, or holding entries.
DirStates == {"absent", "empty", "content"}

DatasetExistsNever(dir) == FALSE

\* FileStore.dataset_exists: the directory exists and has an entry
dataset_exists(dir) == dir = "content"

CleanupKeepsDirectory(dir) == dir

\* FileStore.cleanup_failed_downloads: rmtree when the directory exists
cleanup_failed_downloads(dir) == "absent"

\* One call of the client's download_dataset: what it answers (True, False or
\* an exception) and the directory it leaves.  KaggleClient.download_dataset
\* creates the directory first and answers False for whatever goes wrong while
\* fetching; it raises (ValueError) when it is not authenticated, before it
\* touches the directory.  A partial fetch leaves entries behind.
FetchOutcomes ==
    { [result |-> "true",  leaves |-> "content"],
      [result |-> "true",  leaves |-> "empty"],
      [result |-> "false", leaves |-> "empty"],
      [result |-> "false", leaves |-> "content"],
      [result |-> "raise", leaves |-> "same"],
      [result |-> "raise", leaves |-> "content"] }

DirAfterFetch(dir, o) == IF o.leaves = "same" THEN dir ELSE o.leaves

\* the seconds start() sleeps after a cycle that raised
CooldownSeconds == 60

\* stop_after_attempt(3)
RetryAttempts == 3

\* wait_exponential(multiplier=2, min=4, max=60)
WaitMultiplier == 2
WaitMin == 4
WaitMax == 60

\* tenacity's wait_exponential after attempt attempt_number raised:
\* multiplier * 2 ** (attempt_number - 1), brought into [min, max]
WaitExponential(attempt_number) ==
    LET result == WaitMultiplier * 2 ^ (attempt_number - 1)
        capped == IF result < WaitMax THEN result ELSE WaitMax
    IN IF capped > WaitMin THEN capped ELSE WaitMin

\* DownloadService._download_with_retry under tenacity's @retry, after an
\* attempt: an attempt that raised is repeated ("again") until
\* stop_after_attempt(3), and then RetryError is raised (reraise=False); an
\* attempt that returned is not repeated, whatever the value
\* (retry_if_exception_type looks at exceptions only).
RetryDecision(result, attempt) ==
    IF result = "raise"
    THEN IF attempt >= RetryAttempts THEN "RetryError" ELSE "again"
    ELSE result

ValidateAnything(dir) == TRUE

\* DownloadService.validate_download: the path exists and has an entry
validate_download(dir) == dir = "content"

\* get_available_disk_space answers -1 when statvfs fails
UnknownSpace == -1

\* No download call yet.
NoDownload ==
    [phase |-> "idle", ref |-> 1,
     log |-> <<>>, waits |-> <<>>, status |-> "pending", error_message |-> "",
     result |-> FALSE]

\* FileStore.get_dataset_path raises ValueError for a reference that is not
\* of the form owner/name: such a reference has no directory.
NoPath == "no_path"

DownloadEnterNoSpaceCheck(r, total_bytes, dir, available_space) ==
    LET call == [NoDownload EXCEPT !.ref = r]
    IN IF dir = NoPath
       THEN [call EXCEPT !.phase = "returned", !.status = "failed",
                         !.error_message = "Invalid dataset reference format",
                         !.result = FALSE]
       ELSE IF dataset_exists(dir)
       THEN [call EXCEPT !.phase = "returned", !.status = "completed", !.result = TRUE]
       ELSE [call EXCEPT !.phase = "fetching", !.status = "downloading"]

\* DownloadService.download(dataset), lines 53-79: the path of the reference
\* (an exception there is caught at line 103), the short-circuit on existing
\* content, the free-space check, else status 'downloading'.
DownloadEnter(r, total_bytes, dir, available_space) ==
    LET call == [NoDownload EXCEPT !.ref = r]
    IN IF dir = NoPath
       THEN [call EXCEPT !.phase = "returned", !.status = "failed",
                         !.error_message = "Invalid dataset reference format",
                         !.result = FALSE]
       ELSE IF dataset_exists(dir)
       THEN [call EXCEPT !.phase = "returned", !.status = "completed", !.result = TRUE]
       ELSE IF available_space # UnknownSpace /\ available_space < total_bytes * 2
       THEN [call EXCEPT !.phase = "returned", !.status = "failed",
                         !.error_message = "Insufficient disk space", !.result = FALSE]
       ELSE [call EXCEPT !.phase = "fetching", !.status = "downloading"]

DownloadFinishReraise(outcome, dir) ==
    IF outcome = "RetryError"
    THEN [phase |-> "raised", status |-> "downloading", error_message |-> "",
          result |-> FALSE, dir |-> dir]
    ELSE IF outcome = "true"
    THEN IF validate_download(dir)
         THEN [phase |-> "returned", status |-> "completed", error_message |-> "",
               result |-> TRUE, dir |-> dir]
         ELSE [phase |-> "returned", status |-> "failed", error_message |-> "Validation failed",
               result |-> FALSE, dir |-> cleanup_failed_downloads(dir)]
    ELSE [phase |-> "returned", status |-> "failed",
          error_message |-> "Download failed after retries",
          result |-> FALSE, dir |-> cleanup_failed_downloads(dir)]

DownloadFinishLeavesStatus(outcome, dir) ==
    IF outcome = "true" /\ validate_download(dir)
    THEN [phase |-> "returned", status |-> "completed", error_message |-> "",
          result |-> TRUE, dir |-> dir]
    ELSE [phase |-> "returned", status |-> "downloading", error_message |-> "",
          result |-> FALSE, dir |-> cleanup_failed_downloads(dir)]

\* DownloadService.download, lines 84-108, once _download_with_retry is over
\* with outcome "true", "false" or "RetryError": the status, message and
\* returned flag, and the directory afterwards.
DownloadFinish(outcome, dir) ==
    IF outcome = "RetryError"
    THEN [phase |-> "returned", status |-> "failed", error_message |-> "RetryError",
          result |-> FALSE, dir |-> cleanup_failed_downloads(dir)]
    ELSE IF outcome = "true"
    THEN IF validate_download(dir)
         THEN [phase |-> "returned", status |-> "completed", error_message |-> "",
               result |-> TRUE, dir |-> dir]
         ELSE [phase |-> "returned", status |-> "failed", error_message |-> "Validation failed",
               result |-> FALSE, dir |-> cleanup_failed_downloads(dir)]
    ELSE [phase |-> "returned", status |-> "failed",
          error_message |-> "Download failed after retries",
          result |-> FALSE, dir |-> cleanup_failed_downloads(dir)]


\* ------------------------------------------------------- IngestionService
\* How a save_state call may go: to its end, or an I/O error in the backup
\* copy or in the write of the temporary file.
IOOutcomes == {"ok", "copy_fails", "dump_fails"}

\* StateManager.save_state run from its first line to its return: the
\* returned flag, the statistics and the state directory afterwards.
save_state(d, stats, processed_datasets, successful_downloads, failed_downloads, io) ==
    LET st == MergeStats(stats, successful_downloads, failed_downloads)
        state_data == StateData(processed_datasets, st)
        copies == Exists(d.state_file)
        d1 == IF copies THEN BackupOpen(d) ELSE d
        d2 == IF copies THEN BackupDone(d1) ELSE d
    IN IF copies /\ io = "copy_fails" THEN [ok |-> FALSE, sm |-> st, disk |-> d1]
       ELSE IF io = "dump_fails" THEN [ok |-> FALSE, sm |-> st, disk |-> TempOpen(d2)]
       ELSE [ok |-> TRUE, sm |-> st, disk |-> Rename(TempDone(TempOpen(d2), state_data))]

\* The state directories a kill inside save_state can leave: before the first
\* write, in or after the backup copy, in or after the write of the temporary
\* file, after the rename.
SaveKillPoints(d, state_data) ==
    LET copies == Exists(d.state_file)
        d1 == IF copies THEN BackupOpen(d) ELSE d
        d2 == IF copies THEN BackupDone(d1) ELSE d
        d3 == TempOpen(d2)
        d4 == TempDone(d3, state_data)
    IN {d, d1, d2, d3, d4, Rename(d4)}

\* IngestionService._process_dataset, lines 203-226, once download returned:
\* the tracker set afterwards and the returned flag.  save_metadata answers
\* True or False, or raises.
MetaOutcomes == {"true", "false", "raise"}

ProcessKeepsOnlyLast(T, r, download_ok, meta) ==
    [processed |-> {r}, success |-> download_ok /\ meta # "raise"]

ProcessNoMarkOnFailure(T, r, download_ok, meta) ==
    IF download_ok /\ meta # "raise"
    THEN [processed |-> mark_as_processed(T, r).processed, success |-> TRUE]
    ELSE [processed |-> T, success |-> FALSE]

process_dataset(T, r, download_ok, meta) ==
    LET m == mark_as_processed(T, r)
    IN IF ~download_ok THEN [processed |-> m.processed, success |-> FALSE]
       ELSE IF meta = "raise" \/ m.raised THEN [processed |-> m.processed, success |-> FALSE]
       ELSE [processed |-> m.processed, success |-> TRUE]

FilterNothing(listing, T) == listing

\* poll_once line 147: the listed references that are new, in listing order
RECURSIVE FilterNew(_, _)
FilterNew(listing, T) ==
    IF listing = <<>> THEN <<>>
    ELSE (IF is_new_dataset(T, Head(listing)) THEN <<Head(listing)>> ELSE <<>>)
         \o FilterNew(Tail(listing), T)

VARIABLES
    sm,       \* the StateManager's statistics
    disk,     \* the three files of the state directory
    sm_pc,    \* where the StateManager call in progress stands
    frame,    \* save_state's locals: its argument and state_data
    calls,    \* calls made so far by the driver of the component under test
    ret,      \* what the last finished call returned (or the crash that cut it)
    tracker,  \* Tracker._processed_datasets
    tr_ret,   \* the last Tracker call and what it returned
    held,     \* the set object the caller got from get_all_processed
    store,    \* FileStore: the state of each item's target directory
    dl,       \* the DownloadService.download call in progress or last returned
    pc,             \* where IngestionService.start() stands
    running,        \* IngestionService.running
    poll_count,     \* IngestionService.poll_count
    total_requests, \* RateLimiter.total_requests
    new_datasets,   \* poll_once: the references that passed the is_new filter
    idx,            \* poll_once: the position of the item being processed
    successful,     \* poll_once: local counter
    failed,         \* poll_once: local counter
    wait_i,         \* _wait_for_next_poll: iterations of its loop done
    sig_pc,         \* the step start() was in when the shutdown signal arrived
    slept_after_stop, \* one-second sleeps finished since running became false
    last_save,      \* the last save_state call of the orchestrator
    failed_cycle,   \* whether the last cycle raised, and the seconds slept since
    crashes,        \* times the process was killed and started again
    before_crash,   \* the references the tracker of a killed process held
    interrupted,    \* the references whose fetch a kill cut short, files left
    script,         \* the answers the collaborators will give, where fixed ahead
    snapshots,      \* the documents the driver's save_state calls renamed into
                    \* place, oldest first
    now,               \* time.time(), in seconds
    last_request_time, \* RateLimiter.last_request_time
    total_wait_time,   \* RateLimiter.total_wait_time
    lim_pc,            \* where the wait_if_needed call in progress stands
    lim                \* the last wait_if_needed call: when it was entered, the
                       \* sleep it asked for, when it returned, when the call
                       \* before it returned

smVars == <<sm, disk, sm_pc, frame, ret>>
trVars == <<tracker, tr_ret, held>>
dlVars == <<store, dl>>
runVars == <<pc, running, poll_count, total_requests, new_datasets, idx, successful,
            failed, wait_i, sig_pc, slept_after_stop, last_save, failed_cycle>>
\* what is known of the processes that ran before this one
histVars == <<crashes, before_crash, interrupted, script, snapshots>>
limVars == <<now, last_request_time, total_wait_time, lim_pc, lim>>
notSmVars == <<trVars, dlVars, runVars, histVars, limVars>>
notTrVars == <<smVars, dlVars, runVars, histVars, limVars>>
notDlVars == <<smVars, trVars, runVars, histVars, limVars>>
\* what the run loop never touches: the positions of the drivers, the past
driverVars == <<sm_pc, frame, ret, tr_ret, held, calls, histVars, limVars>>

\* The caller holds no set yet.
NoSetHeld == [taken |-> FALSE, value |-> {}, shared |-> FALSE]

TrInit ==
    /\ tracker = {}
    /\ tr_ret = [op |-> "init"]
    /\ held = NoSetHeld

DlInit ==
    /\ store = [r \in Refs |-> "absent"]
    /\ dl = NoDownload

NoFailedCycle == [raised |-> FALSE, slept |-> 0]

NoSave == [phase |-> "none", processed_datasets |-> {}, successful_downloads |-> 0,
           failed_downloads |-> 0, ok |-> FALSE]

\* IngestionService.__init__ over an empty state directory
RunInit ==
    /\ pc = "init"
    /\ running = FALSE
    /\ poll_count = 0
    /\ total_requests = 0
    /\ new_datasets = <<>>
    /\ idx = 0
    /\ successful = 0
    /\ failed = 0
    /\ wait_i = 0
    /\ sig_pc = "none"
    /\ slept_after_stop = 0
    /\ last_save = NoSave
    /\ failed_cycle = NoFailedCycle

NoLimiterCall == [entered |-> None, wait_time |-> 0, returned |-> None,
                  prev_returned |-> None]

\* RateLimiter.__init__
LimInit ==
    /\ now = 0
    /\ last_request_time = None
    /\ total_wait_time = 0
    /\ lim_pc = "idle"
    /\ lim = NoLimiterCall

HistInit ==
    /\ crashes = 0
    /\ before_crash = {}
    /\ interrupted = {}
    /\ script = <<>>
    /\ snapshots = <<>>

\* One more call of the component under test, while the bound allows.
Call == calls < MaxCalls /\ calls' = calls + 1

NoFrame == [processed_datasets |-> {}, state_data |-> StateData({}, NewStateManager),
            before |-> Absent, would_load |-> {}]

SmInit ==
    /\ sm = NewStateManager
    /\ disk = EmptyDisk
    /\ sm_pc = "idle"
    /\ frame = NoFrame
    /\ ret = [op |-> "init"]

Counts == 0..MaxCount

\* save_state(processed_datasets, successful_downloads, failed_downloads),
\* lines 61-79: merge the counters, build state_data.  The frame notes the
\* primary file as the call found it and the set load_state would have
\* returned instead of the call.
SaveStateCall(S, s, f) ==
    /\ Call
    /\ UNCHANGED notSmVars
    /\ sm_pc = "idle"
    /\ sm' = MergeStats(sm, s, f)
    /\ frame' = [processed_datasets |-> S,
                 state_data |-> StateData(S, MergeStats(sm, s, f)),
                 before |-> disk.state_file,
                 would_load |-> LoadState(disk, sm).processed]
    /\ sm_pc' = "save_backup"
    /\ UNCHANGED <<disk, ret>>

\* lines 82-83: 'if self.state_file.exists(): shutil.copy2(...)', the copy begun.
SaveBackup ==
    /\ UNCHANGED <<calls, notSmVars>>
    /\ sm_pc = "save_backup"
    /\ IF Exists(disk.state_file)
       THEN disk' = BackupOpen(disk) /\ sm_pc' = "save_copying"
       ELSE UNCHANGED disk /\ sm_pc' = "save_temp"
    /\ UNCHANGED <<sm, frame, ret>>

SaveCopyDone ==
    /\ UNCHANGED <<calls, notSmVars>>
    /\ sm_pc = "save_copying"
    /\ disk' = BackupDone(disk)
    /\ sm_pc' = "save_temp"
    /\ UNCHANGED <<sm, frame, ret>>

\* lines 96-98: any exception is logged and save_state returns False.
SaveReturnFalse ==
    /\ UNCHANGED <<calls, notSmVars>>
    /\ sm_pc' = "idle"
    /\ ret' = [op |-> "save", ok |-> FALSE, processed_datasets |-> frame.processed_datasets]
    /\ frame' = NoFrame
    /\ UNCHANGED <<sm, disk>>

\* the copy raises (OSError) part way
SaveCopyFail ==
    /\ sm_pc = "save_copying"
    /\ SaveReturnFalse

SaveTempOpen ==
    /\ UNCHANGED <<calls, notSmVars>>
    /\ sm_pc = "save_temp"
    /\ disk' = TempOpen(disk)
    /\ sm_pc' = "save_dump"
    /\ UNCHANGED <<sm, frame, ret>>

SaveDumpDone ==
    /\ UNCHANGED <<calls, notSmVars>>
    /\ sm_pc = "save_dump"
    /\ disk' = TempDone(disk, frame.state_data)
    /\ sm_pc' = "save_rename"
    /\ UNCHANGED <<sm, frame, ret>>

\* json.dump or the write raises part way
SaveDumpFail ==
    /\ sm_pc = "save_dump"
    /\ SaveReturnFalse

\* lines 91-94: the rename, then 'return True'.
SaveRename ==
    /\ UNCHANGED <<calls, trVars, dlVars, runVars, crashes, before_crash, interrupted,
                   script, limVars>>
    /\ sm_pc = "save_rename"
    /\ disk' = Rename(disk)
    /\ snapshots' = Append(snapshots, frame.state_data)
    /\ sm_pc' = "idle"
    /\ ret' = [op |-> "save", ok |-> TRUE, processed_datasets |-> frame.processed_datasets]
    /\ frame' = NoFrame
    /\ UNCHANGED sm

\* The set a save_state that returned True wrote, when nothing but a restart
\* happened since: <<S>>, or <<>>.
LastSaved ==
    IF ret.op = "save" /\ ret.ok THEN <<ret.processed_datasets>>
    ELSE IF ret.op = "crash" THEN ret.saved
    ELSE <<>>

\* load_state(); restarted_at is the step a kill cut, when the call is the
\* first since that restart
LoadStateCall ==
    /\ Call
    /\ UNCHANGED notSmVars
    /\ sm_pc = "idle"
    /\ LET r == LoadState(disk, sm)
       IN /\ sm' = r.sm
          /\ disk' = r.disk
          /\ ret' = [op |-> "load", processed |-> r.processed, from |-> r.from,
                     stats |-> r.sm, saved |-> LastSaved,
                     restarted_at |-> IF ret.op = "crash" THEN ret.at ELSE "none"]
    /\ UNCHANGED <<sm_pc, frame>>

\* increment_successful_downloads(1), increment_failed_downloads(1)
IncrementSuccessful ==
    /\ Call
    /\ UNCHANGED notSmVars
    /\ sm_pc = "idle"
    /\ sm.successful_downloads < MaxCount
    /\ sm' = [sm EXCEPT !.successful_downloads = @ + 1]
    /\ UNCHANGED <<disk, sm_pc, frame, ret>>

IncrementFailed ==
    /\ Call
    /\ UNCHANGED notSmVars
    /\ sm_pc = "idle"
    /\ sm.failed_downloads < MaxCount
    /\ sm' = [sm EXCEPT !.failed_downloads = @ + 1]
    /\ UNCHANGED <<disk, sm_pc, frame, ret>>

\* The process is killed (at any step) and a new StateManager is constructed
\* over the same directory: memory is lost, the files stay as they are.
Crash ==
    /\ UNCHANGED <<calls, notSmVars>>
    /\ ret' = [op |-> "crash", at |-> sm_pc, before |-> frame.before,
               saved |-> IF sm_pc = "idle" THEN LastSaved ELSE <<>>]
    /\ sm' = NewStateManager
    /\ sm_pc' = "idle"
    /\ frame' = NoFrame
    /\ UNCHANGED disk

StateNext ==
    \/ \E S \in SUBSET Refs, s \in {None, sm.successful_downloads},
                            f \in {None, sm.failed_downloads} :
          SaveStateCall(S, s, f)
    \/ SaveBackup
    \/ SaveCopyDone
    \/ SaveCopyFail
    \/ SaveTempOpen
    \/ SaveDumpDone
    \/ SaveDumpFail
    \/ SaveRename
    \/ LoadStateCall
    \/ IncrementSuccessful
    \/ IncrementFailed
    \/ Crash


\* ------------------------------------------- faults of the state directory
\* The state directory is damaged from outside the program (a file is
\* overwritten with invalid JSON, or deleted) while no call is in progress.
StateFiles == {"state_file", "backup_file"}

CorruptFile(f) ==
    /\ Call
    /\ UNCHANGED notSmVars
    /\ sm_pc = "idle"
    /\ Exists(disk[f])
    /\ disk' = [disk EXCEPT ![f] = Partial]
    /\ UNCHANGED <<sm, sm_pc, frame, ret>>

DeleteFile(f) ==
    /\ Call
    /\ UNCHANGED notSmVars
    /\ sm_pc = "idle"
    /\ Exists(disk[f])
    /\ disk' = [disk EXCEPT ![f] = Absent]
    /\ UNCHANGED <<sm, sm_pc, frame, ret>>

FaultNext ==
    \/ StateNext
    \/ \E f \in StateFiles : CorruptFile(f)
    \/ \E f \in StateFiles : DeleteFile(f)

\* ----------------------------------------------------------- Tracker, driven
\* A user of the Tracker calls its methods in any order, and adds to or
\* removes from the set get_all_processed gave it.
\* The set the caller holds once the Tracker's own set object has become T:
\* the same members when it is that object.
HeldWhenTrackerIs(T) == IF held.shared THEN [held EXCEPT !.value = T] ELSE held

MarkAsProcessed(r) ==
    /\ Call
    /\ LET m == mark_as_processed(tracker, r)
       IN /\ tracker' = m.processed
          /\ tr_ret' = [op |-> "mark_as_processed", ref |-> r, raised |-> m.raised,
                        was_member |-> r \in tracker]
    /\ held' = HeldWhenTrackerIs(tracker')
    /\ UNCHANGED notTrVars

IsNewDataset(r) ==
    /\ Call
    /\ tr_ret' = [op |-> "is_new_dataset", ref |-> r, value |-> is_new_dataset(tracker, r)]
    /\ held' = held
    /\ UNCHANGED <<tracker, notTrVars>>

GetAllProcessed ==
    /\ Call
    /\ tr_ret' = [op |-> "get_all_processed", value |-> get_all_processed(tracker)]
    /\ held' = ReturnedSet(tracker)
    /\ UNCHANGED <<tracker, notTrVars>>

LoadProcessed(dataset_refs) ==
    /\ Call
    /\ tracker' = load_processed(tracker, dataset_refs)
    /\ tr_ret' = [op |-> "load_processed", value |-> dataset_refs]
    /\ held' = [held EXCEPT !.shared = FALSE]
    /\ UNCHANGED notTrVars

RemoveProcessed(r) ==
    /\ Call
    /\ LET m == remove_processed(tracker, r)
       IN /\ tracker' = m.processed
          /\ tr_ret' = [op |-> "remove_processed", ref |-> r, value |-> m.removed]
    /\ held' = HeldWhenTrackerIs(tracker')
    /\ UNCHANGED notTrVars

\* Tracker.clear
Clear ==
    /\ Call
    /\ tracker' = {}
    /\ tr_ret' = [op |-> "clear"]
    /\ held' = HeldWhenTrackerIs(tracker')
    /\ UNCHANGED notTrVars

\* The caller adds r to, or removes r from, the set it was given.
CallerAdds(r) ==
    /\ Call
    /\ held.taken
    /\ held' = [held EXCEPT !.value = @ \cup {r}]
    /\ tracker' = IF held.shared THEN held'.value ELSE tracker
    /\ UNCHANGED <<tr_ret, notTrVars>>

CallerRemoves(r) ==
    /\ Call
    /\ held.taken
    /\ held' = [held EXCEPT !.value = @ \ {r}]
    /\ tracker' = IF held.shared THEN held'.value ELSE tracker
    /\ UNCHANGED <<tr_ret, notTrVars>>

TrackerNext ==
    \/ \E r \in Refs : MarkAsProcessed(r)
    \/ \E r \in Refs : IsNewDataset(r)
    \/ GetAllProcessed
    \/ \E S \in SUBSET Refs : LoadProcessed(S)
    \/ \E r \in Refs : RemoveProcessed(r)
    \/ Clear
    \/ \E r \in Refs : CallerAdds(r)
    \/ \E r \in Refs : CallerRemoves(r)


\* ------------------------------------------------------ RateLimiter, driven
\* A second of the clock passes, at any moment: between two calls, and while
\* a call sleeps (time.sleep returns after the time asked for, or later).
Tick ==
    /\ now < MaxTime
    /\ now' = now + 1
    /\ UNCHANGED <<smVars, trVars, dlVars, runVars, histVars, calls, last_request_time,
                   total_wait_time, lim_pc, lim>>

WaitTimeNone(last, t) == 0

\* wait_if_needed lines 46-50: the sleep asked for, t being time.time()
WaitTime(last, t) ==
    IF t - last < MinInterval THEN MinInterval - (t - last) ELSE 0

\* the run variables but RateLimiter.total_requests
notRequestVars == <<smVars, trVars, dlVars, histVars, pc, running, poll_count,
                    new_datasets, idx, successful, failed, wait_i, sig_pc,
                    slept_after_stop, last_save, failed_cycle>>

\* wait_if_needed is entered: lines 39-43 on the first call; lines 46-47 and,
\* with nothing to wait for, lines 54-55 on a later one
WaitIfNeededCall ==
    /\ Call
    /\ lim_pc = "idle"
    /\ IF last_request_time = None \/ WaitTime(last_request_time, now) = 0
       THEN /\ last_request_time' = now
            /\ total_requests' = total_requests + 1
            /\ lim' = [entered |-> now, wait_time |-> 0, returned |-> now,
                       prev_returned |-> lim.returned]
            /\ UNCHANGED lim_pc
       ELSE /\ lim' = [entered |-> now,
                       wait_time |-> WaitTime(last_request_time, now),
                       returned |-> None, prev_returned |-> lim.returned]
            /\ lim_pc' = "sleeping"
            /\ UNCHANGED <<last_request_time, total_requests>>
    /\ UNCHANGED <<notRequestVars, now, total_wait_time>>

\* lines 50-55: time.sleep(wait_time) is over, the call records and returns
WaitIfNeededWake ==
    /\ lim_pc = "sleeping"
    /\ now >= lim.entered + lim.wait_time
    /\ total_wait_time' = total_wait_time + lim.wait_time
    /\ last_request_time' = now
    /\ total_requests' = total_requests + 1
    /\ lim' = [lim EXCEPT !.returned = now]
    /\ lim_pc' = "idle"
    /\ UNCHANGED <<notRequestVars, calls, now>>

LimiterNext ==
    \/ Tick
    \/ WaitIfNeededCall
    \/ WaitIfNeededWake

\* --------------------------------------------------- DownloadService, driven
\* download(dataset) for an item of any declared size, with any free space
\* reported and a client that behaves in any way on each call it gets.
Sizes == 0..MaxBytes
Spaces == {UnknownSpace} \cup 0..MaxSpace

DownloadCall(r, total_bytes, available_space, valid) ==
    /\ Call
    /\ dl.phase # "fetching"
    /\ dl' = DownloadEnter(r, total_bytes, IF valid THEN store[r] ELSE NoPath,
                           available_space)
    /\ UNCHANGED <<store, notDlVars>>

\* One attempt of _download_with_retry: the client is called and answers in
\* one of the ways it can; tenacity repeats the attempt or ends the loop, and
\* when the loop is over download validates, cleans up and returns.
FetchAttempt(o) ==
    /\ dl.phase = "fetching"
    /\ LET dir == DirAfterFetch(store[dl.ref], o)
           log == Append(dl.log, o.result)
           decision == RetryDecision(o.result, Len(log))
           f == DownloadFinish(decision, dir)
       IN IF decision = "again"
          THEN /\ dl' = [dl EXCEPT !.log = log,
                                   !.waits = Append(@, WaitExponential(Len(log)))]
               /\ store' = [store EXCEPT ![dl.ref] = dir]
          ELSE /\ dl' = [dl EXCEPT !.log = log, !.phase = f.phase, !.status = f.status,
                                   !.error_message = f.error_message, !.result = f.result]
               /\ store' = [store EXCEPT ![dl.ref] = f.dir]
    /\ UNCHANGED <<calls, notDlVars>>

DownloadNext ==
    \/ \E r \in Refs, b \in Sizes, a \in Spaces, valid \in BOOLEAN :
          DownloadCall(r, b, a, valid)
    \/ \E o \in FetchOutcomes : FetchAttempt(o)

\* the target directories as earlier runs may have left them
DownloadInit ==
    /\ calls = 0
    /\ SmInit
    /\ TrInit
    /\ store \in [Refs -> DirStates]
    /\ dl = NoDownload
    /\ RunInit
    /\ HistInit
    /\ LimInit


\* ------------------------------------------------ IngestionService.start()
Listings == UNION {[1..n -> Refs] : n \in 0..MaxList}

StartWhateverAuthenticateDoes(authenticated) ==
    /\ pc = "init"
    /\ running' = TRUE
    /\ pc' = "loop"
    /\ UNCHANGED <<sm, disk, tracker, store, dl, driverVars, poll_count, total_requests,
                   new_datasets, idx, successful, failed, wait_i, sig_pc,
                   slept_after_stop, last_save, failed_cycle>>

\* lines 82-90: running = True, authenticate (True when it returns, False when
\* it raises); sys.exit(1) when it raises
Start(authenticated) ==
    /\ pc = "init"
    /\ running' = TRUE
    /\ pc' = IF authenticated THEN "loop" ELSE "exited"
    /\ UNCHANGED <<sm, disk, tracker, store, dl, driverVars, poll_count, total_requests,
                   new_datasets, idx, successful, failed, wait_i, sig_pc,
                   slept_after_stop, last_save, failed_cycle>>

\* lines 93-96: 'while self.running:', poll_count += 1
LoopCheck ==
    /\ pc = "loop"
    /\ IF running
       THEN /\ poll_count < MaxPolls
            /\ poll_count' = poll_count + 1
            /\ pc' = "poll"
       ELSE /\ pc' = "shutdown"
            /\ UNCHANGED poll_count
    /\ UNCHANGED <<sm, disk, tracker, store, dl, driverVars, running, total_requests,
                   new_datasets, idx, successful, failed, wait_i, sig_pc,
                   slept_after_stop, last_save, failed_cycle>>

PollRaisesStampsPoll ==
    /\ pc = "poll"
    /\ total_requests' = total_requests + 1
    /\ failed_cycle' = [raised |-> TRUE, slept |-> 0]
    /\ sm' = [sm EXCEPT !.last_poll_timestamp = poll_count]
    /\ pc' = "cooldown"
    /\ UNCHANGED <<disk, tracker, store, dl, driverVars, running, poll_count,
                   new_datasets, idx, successful, failed, wait_i, sig_pc,
                   slept_after_stop, last_save>>

PollRaisesBeforeLimiter ==
    /\ pc = "poll"
    /\ failed_cycle' = [raised |-> TRUE, slept |-> 0]
    /\ pc' = "cooldown"
    /\ UNCHANGED <<sm, disk, tracker, store, dl, driverVars, running, poll_count,
                   total_requests, new_datasets, idx, successful, failed, wait_i,
                   sig_pc, slept_after_stop, last_save>>

\* poll_once lines 134-157: the rate limiter, the listing (which may raise:
\* lines 184-186 and 113-117), the filter.
PollRaises ==
    /\ pc = "poll"
    /\ total_requests' = total_requests + 1
    /\ failed_cycle' = [raised |-> TRUE, slept |-> 0]
    /\ pc' = "cooldown"
    /\ UNCHANGED <<sm, disk, tracker, store, dl, driverVars, running, poll_count,
                   new_datasets, idx, successful, failed, wait_i, sig_pc,
                   slept_after_stop, last_save>>

Poll(listing) ==
    /\ pc = "poll"
    /\ total_requests' = total_requests + 1
    /\ LET new == FilterNew(listing, tracker)
       IN IF new = <<>>
          THEN /\ pc' = "polled"
               /\ UNCHANGED <<new_datasets, idx, successful, failed>>
          ELSE /\ new_datasets' = new
               /\ idx' = 1
               /\ successful' = 0
               /\ failed' = 0
               /\ pc' = "process"
    /\ failed_cycle' = NoFailedCycle
    /\ UNCHANGED <<sm, disk, tracker, store, dl, driverVars, running, poll_count,
                   wait_i, sig_pc, slept_after_stop, last_save>>

\* poll_once lines 159-163, _process_dataset line 201: download is entered
ProcessBegin(total_bytes, available_space) ==
    /\ pc = "process"
    /\ idx <= Len(new_datasets)
    /\ dl' = DownloadEnter(new_datasets[idx], total_bytes, store[new_datasets[idx]],
                           available_space)
    /\ pc' = "download"
    /\ UNCHANGED <<sm, disk, tracker, store, driverVars, running, poll_count,
                   total_requests, new_datasets, idx, successful, failed, wait_i,
                   sig_pc, slept_after_stop, last_save, failed_cycle>>

ProcessEndAborts(meta) ==
    /\ pc = "download"
    /\ dl.phase = "returned"
    /\ IF meta = "raise" /\ dl.result
       THEN /\ pc' = "cooldown"
            /\ failed_cycle' = [raised |-> TRUE, slept |-> 0]
            /\ new_datasets' = <<>>
            /\ idx' = 0
            /\ successful' = 0
            /\ failed' = 0
            /\ UNCHANGED tracker
       ELSE /\ LET p == process_dataset(tracker, dl.ref, dl.result, meta)
               IN /\ tracker' = p.processed
                  /\ successful' = IF p.success THEN successful + 1 ELSE successful
                  /\ failed' = IF p.success THEN failed ELSE failed + 1
            /\ idx' = idx + 1
            /\ pc' = "process"
            /\ UNCHANGED <<new_datasets, failed_cycle>>
    /\ dl' = NoDownload
    /\ UNCHANGED <<sm, disk, store, driverVars, running, poll_count, total_requests,
                   wait_i, sig_pc, slept_after_stop, last_save>>

\* _process_dataset lines 203-226 and poll_once lines 164-172
ProcessEnd(meta) ==
    /\ pc = "download"
    /\ dl.phase = "returned"
    /\ LET p == process_dataset(tracker, dl.ref, dl.result, meta)
       IN /\ tracker' = p.processed
          /\ successful' = IF p.success THEN successful + 1 ELSE successful
          /\ failed' = IF p.success THEN failed ELSE failed + 1
    /\ idx' = idx + 1
    /\ dl' = NoDownload
    /\ pc' = "process"
    /\ UNCHANGED <<sm, disk, store, driverVars, running, poll_count, total_requests,
                   new_datasets, wait_i, sig_pc, slept_after_stop, last_save, failed_cycle>>

ProcessDoneOverwrites ==
    /\ pc = "process"
    /\ idx > Len(new_datasets)
    /\ sm' = [sm EXCEPT !.successful_downloads = successful,
                        !.failed_downloads = failed]
    /\ new_datasets' = <<>>
    /\ idx' = 0
    /\ successful' = 0
    /\ failed' = 0
    /\ pc' = "polled"
    /\ UNCHANGED <<disk, tracker, store, dl, driverVars, running, poll_count,
                   total_requests, wait_i, sig_pc, slept_after_stop, last_save,
                   failed_cycle>>

\* poll_once lines 174-182: the loop is over, the counters are added, and
\* poll_once returns: its locals are gone
ProcessDone ==
    /\ pc = "process"
    /\ idx > Len(new_datasets)
    /\ sm' = [sm EXCEPT !.successful_downloads = @ + successful,
                        !.failed_downloads = @ + failed]
    /\ new_datasets' = <<>>
    /\ idx' = 0
    /\ successful' = 0
    /\ failed' = 0
    /\ pc' = "polled"
    /\ UNCHANGED <<disk, tracker, store, dl, driverVars, running, poll_count,
                   total_requests, wait_i, sig_pc, slept_after_stop, last_save, failed_cycle>>

SaveStateOfNothing(phase, stats, io) ==
    LET r == save_state(disk, stats, {},
                        stats.successful_downloads, stats.failed_downloads, io)
    IN /\ sm' = r.sm
       /\ disk' = r.disk
       /\ last_save' = [phase |-> phase,
                        processed_datasets |-> {},
                        successful_downloads |-> stats.successful_downloads,
                        failed_downloads |-> stats.failed_downloads,
                        ok |-> r.ok]

\* IngestionService._save_state: save_state(tracker.get_all_processed(),
\* the StateManager's own counters); a failure is logged only.
SaveState(phase, stats, io) ==
    LET r == save_state(disk, stats, get_all_processed(tracker),
                        stats.successful_downloads, stats.failed_downloads, io)
    IN /\ sm' = r.sm
       /\ disk' = r.disk
       /\ last_save' = [phase |-> phase,
                        processed_datasets |-> get_all_processed(tracker),
                        successful_downloads |-> stats.successful_downloads,
                        failed_downloads |-> stats.failed_downloads,
                        ok |-> r.ok]

SaveAfterPollStopsOnFailure(io) ==
    /\ pc = "polled"
    /\ SaveState("poll", [sm EXCEPT !.last_poll_timestamp = poll_count], io)
    /\ wait_i' = 0
    /\ pc' = IF io = "ok" THEN "wait_check" ELSE "stopped"
    /\ UNCHANGED <<tracker, store, dl, driverVars, running, poll_count, total_requests,
                   new_datasets, idx, successful, failed, sig_pc, slept_after_stop,
                   failed_cycle>>

\* start() lines 106-108 and 121: update_poll_timestamp (the time of a cycle
\* is its number), _save_state, then _wait_for_next_poll is entered
SaveAfterPoll(io) ==
    /\ pc = "polled"
    /\ SaveState("poll", [sm EXCEPT !.last_poll_timestamp = poll_count], io)
    /\ wait_i' = 0
    /\ pc' = "wait_check"
    /\ UNCHANGED <<tracker, store, dl, driverVars, running, poll_count, total_requests,
                   new_datasets, idx, successful, failed, sig_pc, slept_after_stop,
                   failed_cycle>>

WaitCheckIgnoresFlag ==
    /\ pc = "wait_check"
    /\ IF wait_i < Interval
       THEN /\ pc' = "wait_sleep"
            /\ UNCHANGED wait_i
       ELSE /\ pc' = "loop"
            /\ wait_i' = 0
    /\ UNCHANGED <<sm, disk, tracker, store, dl, driverVars, running, poll_count,
                   total_requests, new_datasets, idx, successful, failed,
                   sig_pc, slept_after_stop, last_save, failed_cycle>>

\* _wait_for_next_poll lines 249-251: 'for _ in range(interval)',
\* 'if not self.running: break'
WaitCheck ==
    /\ pc = "wait_check"
    /\ IF wait_i < Interval /\ running
       THEN /\ pc' = "wait_sleep"
            /\ UNCHANGED wait_i
       ELSE /\ pc' = "loop"
            /\ wait_i' = 0
    /\ UNCHANGED <<sm, disk, tracker, store, dl, driverVars, running, poll_count,
                   total_requests, new_datasets, idx, successful, failed,
                   sig_pc, slept_after_stop, last_save, failed_cycle>>

\* line 252: time.sleep(1) is over
WaitSleep ==
    /\ pc = "wait_sleep"
    /\ wait_i' = wait_i + 1
    /\ slept_after_stop' = IF running THEN slept_after_stop ELSE slept_after_stop + 1
    /\ pc' = "wait_check"
    /\ UNCHANGED <<sm, disk, tracker, store, dl, driverVars, running, poll_count,
                   total_requests, new_datasets, idx, successful, failed, sig_pc,
                   last_save, failed_cycle>>

CooldownSkipped ==
    /\ pc = "cooldown"
    /\ pc' = "loop"
    /\ UNCHANGED <<sm, disk, tracker, store, dl, driverVars, running, poll_count,
                   total_requests, new_datasets, idx, successful, failed, wait_i,
                   sig_pc, slept_after_stop, last_save, failed_cycle>>

\* lines 113-118: time.sleep(60) after a cycle that raised, then 'continue'
Cooldown ==
    /\ pc = "cooldown"
    /\ failed_cycle' = [failed_cycle EXCEPT !.slept = @ + CooldownSeconds]
    /\ pc' = "loop"
    /\ UNCHANGED <<sm, disk, tracker, store, dl, driverVars, running, poll_count,
                   total_requests, new_datasets, idx, successful, failed, wait_i,
                   sig_pc, slept_after_stop, last_save>>

ShutdownNoSave(io) ==
    /\ pc = "shutdown"
    /\ pc' = "stopped"
    /\ UNCHANGED <<sm, disk, last_save, failed_cycle, tracker, store, dl, driverVars, running,
                   poll_count, total_requests, new_datasets, idx, successful, failed,
                   wait_i, sig_pc, slept_after_stop>>

\* lines 123-124 and _shutdown: the final _save_state, then start() returns
Shutdown(io) ==
    /\ pc = "shutdown"
    /\ SaveState("shutdown", sm, io)
    /\ pc' = "stopped"
    /\ UNCHANGED <<tracker, store, dl, driverVars, running, poll_count, total_requests,
                   new_datasets, idx, successful, failed, wait_i, sig_pc,
                   slept_after_stop,
                   failed_cycle>>

\* The steps of the run loop, by the position of start()
StepOf(p) ==
    CASE p = "init" -> "Initializing"
      [] p \in {"loop", "poll"} -> "Polling"
      [] p \in {"process", "download"} -> "Processing"
      [] p = "polled" -> "Saving"
      [] p \in {"wait_check", "wait_sleep"} -> "Sleeping"
      [] p = "cooldown" -> "Cooldown"
      [] OTHER -> "ShuttingDown"

SignalAbortsItem ==
    /\ pc \notin {"stopped", "exited"}
    /\ running \/ (pc = "init" /\ sig_pc = "none")
    /\ running' = FALSE
    /\ sig_pc' = StepOf(pc)
    /\ pc' = IF pc \in {"process", "download"} THEN "shutdown" ELSE pc
    /\ UNCHANGED <<sm, disk, tracker, store, dl, driverVars, poll_count,
                   total_requests, new_datasets, idx, successful, failed, wait_i,
                   slept_after_stop, last_save, failed_cycle>>

\* _shutdown_handler, on SIGINT or SIGTERM, at any point once __init__ has
\* registered it: running = False.  (A signal that finds running false
\* already changes nothing; the one before start() is kept to show that.)
Signal ==
    /\ pc \notin {"stopped", "exited"}
    /\ running \/ (pc = "init" /\ sig_pc = "none")
    /\ running' = FALSE
    /\ sig_pc' = StepOf(pc)
    /\ UNCHANGED <<sm, disk, tracker, store, dl, driverVars, pc, poll_count,
                   total_requests, new_datasets, idx, successful, failed, wait_i,
                   slept_after_stop, last_save, failed_cycle>>

\* The process is killed, wherever start() stands, and the service is
\* constructed again over the same directories (__init__, _load_state): memory
\* is lost, the files stay as they are.  A kill inside save_state leaves the
\* state directory at one of its intermediate points; a kill inside a fetch
\* leaves the target directory as it was, created but empty, or with the files
\* written so far.
KillRestart ==
    /\ crashes < MaxCrashes
    /\ crashes' = crashes + 1
    /\ before_crash' = before_crash \cup tracker
    /\ \E dk \in (IF pc = "polled"
                   THEN SaveKillPoints(disk, StateData(get_all_processed(tracker),
                                           [sm EXCEPT !.last_poll_timestamp = poll_count]))
                   ELSE IF pc = "shutdown"
                   THEN SaveKillPoints(disk, StateData(get_all_processed(tracker), sm))
                   ELSE {disk}),
          dir \in (IF dl.phase = "fetching"
                    THEN {store[dl.ref], "empty", "content"}
                    ELSE {store[dl.ref]}) :
          LET r == LoadState(dk, NewStateManager)
          IN /\ disk' = r.disk
             /\ sm' = r.sm
             /\ tracker' = load_processed({}, r.processed)
             /\ store' = [store EXCEPT ![dl.ref] = dir]
             /\ interrupted' = IF dl.phase = "fetching" /\ dir = "content"
                               THEN interrupted \cup {dl.ref}
                               ELSE interrupted
    /\ dl' = NoDownload
    /\ pc' = "init"
    /\ running' = FALSE
    /\ poll_count' = 0
    /\ total_requests' = 0
    /\ new_datasets' = <<>>
    /\ idx' = 0
    /\ successful' = 0
    /\ failed' = 0
    /\ wait_i' = 0
    /\ sig_pc' = "none"
    /\ slept_after_stop' = 0
    /\ last_save' = NoSave
    /\ failed_cycle' = NoFailedCycle
    /\ UNCHANGED <<sm_pc, frame, ret, tr_ret, held, calls, script, snapshots, limVars>>

\* the steps of the thread that runs start()
RunStep ==
    \/ \E authenticated \in BOOLEAN : Start(authenticated)
    \/ LoopCheck
    \/ PollRaises
    \/ \E listing \in Listings : Poll(listing)
    \/ \E b \in Sizes, a \in Spaces : ProcessBegin(b, a)
    \/ \E o \in FetchOutcomes : FetchAttempt(o)
    \/ \E meta \in MetaOutcomes : ProcessEnd(meta)
    \/ ProcessDone
    \/ \E io \in IOOutcomes : SaveAfterPoll(io)
    \/ WaitCheck
    \/ WaitSleep
    \/ Cooldown
    \/ \E io \in IOOutcomes : Shutdown(io)

Next ==
    \/ RunStep
    \/ Signal

\* ------------------------------------------------- the end-to-end scenario
\* One poll cycle of a service constructed over a state file that records the
\* first item of the listing as processed; the listing has three items, the
\* fetch of the second answers True, the fetch of the third fails at every
\* attempt (answers False, or raises each time); both are attempted.
ScenarioListing == <<1, 2, 3>>

Scripts ==
    { e \in [successful_downloads : Counts, failed_downloads : Counts,
              fetch_B : {o \in FetchOutcomes : o.result = "true"},
              fetch_C : {o \in FetchOutcomes : o.result # "true"},
              meta : MetaOutcomes, io : IOOutcomes,
              total_bytes : Sizes, available_space : Spaces] :
        e.available_space = UnknownSpace \/ e.available_space >= e.total_bytes * 2 }

ScenarioInit ==
    /\ script \in Scripts
    /\ LET prior == [NewStateManager EXCEPT
                       !.successful_downloads = script.successful_downloads,
                       !.failed_downloads = script.failed_downloads]
           A == ScenarioListing[1]
       IN /\ disk = [EmptyDisk EXCEPT !.state_file = JsonFile(StateData({A}, prior))]
          /\ sm = LoadState(disk, NewStateManager).sm
          /\ tracker = load_processed({}, LoadState(disk, NewStateManager).processed)
          /\ store \in {f \in [Range(ScenarioListing) -> DirStates] :
                          /\ f[A] # "empty"
                          /\ \A r \in Range(ScenarioListing) \ {A} : ~dataset_exists(f[r])}
    /\ sm_pc = "idle"
    /\ frame = NoFrame
    /\ ret = [op |-> "init"]
    /\ tr_ret = [op |-> "init"]
    /\ held = NoSetHeld
    /\ calls = 0
    /\ dl = NoDownload
    /\ RunInit
    /\ crashes = 0
    /\ before_crash = {}
    /\ interrupted = {}
    /\ snapshots = <<>>
    /\ LimInit

ScenarioNext ==
    \/ \E authenticated \in BOOLEAN : Start(authenticated)
    \/ LoopCheck
    \/ Poll(ScenarioListing)
    \/ ProcessBegin(script.total_bytes, script.available_space)
    \/ FetchAttempt(IF dl.ref = ScenarioListing[2] THEN script.fetch_B ELSE script.fetch_C)
    \/ ProcessEnd(script.meta)
    \/ ProcessDone
    \/ SaveAfterPoll(script.io)

RestartNext ==
    \/ Next
    \/ KillRestart

\* ------------------------------------- construction over a found directory
\* The state files a new process may find: missing, not JSON, or a document
\* an earlier save_state wrote.
FoundFiles ==
    {Absent, Partial} \cup
    {JsonFile(StateData(S, [NewStateManager EXCEPT !.successful_downloads = s])) :
        S \in SUBSET Refs, s \in Counts}

\* How the repair copy of load_state (shutil.copy2, lines 118-119) may go: to
\* its end, or OSError before or after the destination was opened for writing.
CopyOutcomes == {"ok", "raises_unopened", "raises_part_way"}

\* IngestionService._load_state (lines 67-75) over StateManager.load_state
\* (lines 100-124) in a new process: the tracker set, the statistics and the
\* state directory afterwards.  The repair copy stands outside any try of
\* load_state: when it raises, load_state returns nothing, _load_state
\* catches the exception (line 73) and the tracker stays as constructed.
LoadStateAtInit(d, copy) ==
    LET r == LoadState(d, NewStateManager)
    IN IF r.from = "backup" /\ Exists(d.backup_file) /\ copy # "ok"
       THEN [processed |-> {}, sm |-> r.sm, raised |-> TRUE,
             disk |-> IF copy = "raises_part_way"
                      THEN [d EXCEPT !.state_file = Partial] ELSE d]
       ELSE [processed |-> load_processed({}, r.processed), sm |-> r.sm,
             raised |-> FALSE, disk |-> r.disk]

\* IngestionService.__init__, lines 38-65
Construct(copy) ==
    /\ pc = "constructing"
    /\ LET r == LoadStateAtInit(disk, copy)
       IN /\ tracker' = r.processed
          /\ sm' = r.sm
          /\ disk' = r.disk
    /\ pc' = "init"
    /\ UNCHANGED <<store, dl, driverVars, running, poll_count, total_requests,
                   new_datasets, idx, successful, failed, wait_i, sig_pc,
                   slept_after_stop, last_save, failed_cycle>>

\* a process that finds some state directory: the class is not yet constructed
StartupInit ==
    /\ calls = 0
    /\ sm = NewStateManager
    /\ disk \in [state_file : FoundFiles, backup_file : FoundFiles, temp_file : {Absent}]
    /\ sm_pc = "idle"
    /\ frame = NoFrame
    /\ ret = [op |-> "init"]
    /\ TrInit
    /\ DlInit
    /\ pc = "constructing"
    /\ running = FALSE
    /\ poll_count = 0
    /\ total_requests = 0
    /\ new_datasets = <<>>
    /\ idx = 0
    /\ successful = 0
    /\ failed = 0
    /\ wait_i = 0
    /\ sig_pc = "none"
    /\ slept_after_stop = 0
    /\ last_save = NoSave
    /\ failed_cycle = NoFailedCycle
    /\ HistInit
    /\ LimInit

StartupNext ==
    \/ \E copy \in CopyOutcomes : Construct(copy)
    \/ \E authenticated \in BOOLEAN : Start(authenticated)

\* ----------------------------------------------------------- specifications
vars == <<sm, disk, sm_pc, frame, ret, calls, tracker, tr_ret, held, store, dl,
          runVars,
          histVars, limVars>>

Init ==
    /\ calls = 0
    /\ SmInit
    /\ TrInit
    /\ DlInit
    /\ RunInit
    /\ HistInit
    /\ LimInit

\* one run of the service, from construction over an empty state directory
Spec == Init /\ [][Next]_vars

\* the same; the thread that runs start() keeps running
FairSpec == Spec /\ WF_vars(RunStep)

\* runs of the service over the same directories, each but the last killed
SpecRestart == Init /\ [][RestartNext]_vars

\* the end-to-end scenario
SpecScenario == ScenarioInit /\ [][ScenarioNext]_vars

\* the construction of the service over a state directory as found
SpecStartup == StartupInit /\ [][StartupNext]_vars

\* the StateManager and its state directory, with crashes
SpecState == Init /\ [][StateNext]_vars

\* the same, with the state directory damaged from outside
SpecFault == Init /\ [][FaultNext]_vars

\* the Tracker under any sequence of calls
SpecTracker == Init /\ [][TrackerNext]_vars

\* the RateLimiter under any sequence of calls, the clock running
SpecLimiter == Init /\ [][LimiterNext]_vars

\* DownloadService.download on any item, directory, free space and client
SpecDownload == DownloadInit /\ [][DownloadNext]_vars

\* ------------------------------------------------------------------ claims

\* C1: at every point, in the middle of save_state and after a crash at any
\* step of it included, the primary state file is absent or a complete
\* snapshot, never a partially written one: while a save_state is in progress
\* and after a crash that cut one short it is what it was when the call began
\* (absent or the previous snapshot), and after a save_state that returned
\* True it is the complete new snapshot.
C1_PrimaryNeverPartial ==
    /\ disk.state_file.kind # "partial"
    /\ sm_pc # "idle" => disk.state_file = frame.before
    /\ (ret.op = "crash" /\ ret.at # "idle") => disk.state_file = ret.before
    /\ (ret.op = "save" /\ ret.ok) =>
          /\ Parses(disk.state_file)
          /\ Range(disk.state_file.doc.processed_datasets) = ret.processed_datasets

\* a save_state over an existing snapshot stands right before its rename
C1_Witness ==
    /\ sm_pc = "save_rename"
    /\ Parses(disk.state_file)
    /\ Parses(disk.temp_file)
    /\ disk.temp_file # disk.state_file

\* C2 as claimed: after the process ends inside save_state with the temporary
\* file written and not yet renamed, the primary is absent or the old complete
\* snapshot and the backup file is a valid, parseable snapshot.
C2_Original ==
    (ret.op = "crash" /\ ret.at = "save_rename" /\ sm_pc = "idle") =>
        /\ disk.state_file = ret.before
        /\ disk.state_file.kind # "partial"
        /\ Parses(disk.backup_file)

\* C2, amended: after the process ends inside save_state with the temporary
\* file written and not yet renamed, the primary is absent or the old complete
\* snapshot; the backup is a valid snapshot equal to the old primary when a
\* primary existed before the save, and is absent when none did.
C2_CrashBeforeRename ==
    (ret.op = "crash" /\ ret.at = "save_rename" /\ sm_pc = "idle") =>
        /\ disk.state_file = ret.before
        /\ disk.state_file.kind # "partial"
        /\ IF Exists(ret.before)
           THEN Parses(disk.backup_file) /\ disk.backup_file = ret.before
           ELSE disk.backup_file = Absent

C2_Witness ==
    /\ ret.op = "crash" /\ ret.at = "save_rename" /\ sm_pc = "idle"
    /\ Parses(disk.state_file)
    /\ Parses(disk.backup_file)
    /\ Parses(disk.temp_file)
    /\ disk.temp_file # disk.state_file

\* C3: load_state() after a save_state(S) that returned True, on the same
\* StateManager or on a new one over the same directory, returns exactly S.
C3_RoundTrip ==
    (ret.op = "load" /\ ret.saved # <<>>) => ret.processed = ret.saved[1]

C3_Witness ==
    /\ ret.op = "load"
    /\ ret.saved # <<>>
    /\ Cardinality(ret.processed) >= 2

C5_Original ==
    (ret.op = "load" /\ ret.from = "none") =>
        /\ ret.processed = {}
        /\ ret.stats.successful_downloads = 0
        /\ ret.stats.failed_downloads = 0

\* C6: after mark_as_processed(r), is_new_dataset(r) is false; a second
\* mark_as_processed(r) raises nothing and leaves get_all_processed() as it was.
C6_MarkIdempotent ==
    [][\A r \in Refs : MarkAsProcessed(r) =>
          /\ ~is_new_dataset(tracker', r)
          /\ ~tr_ret'.raised
          /\ r \in tracker => get_all_processed(tracker') = get_all_processed(tracker)]_vars

\* mark_as_processed was called on a reference that was already a member
C6_Witness ==
    /\ tr_ret.op = "mark_as_processed"
    /\ tr_ret.was_member
    /\ tr_ret.ref \in tracker
    /\ Cardinality(tracker) >= 2

\* The client failed on every call it got, by answering False or by raising.
AlwaysFailed(log) == \A i \in 1..Len(log) : log[i] \in {"false", "raise"}

\* C7 as claimed: when the client fails on every attempt, by answering False
\* or by raising, download calls its fetch exactly 3 times and returns False.
C7_Original ==
    (dl.phase = "returned" /\ Len(dl.log) > 0 /\ AlwaysFailed(dl.log)) =>
        /\ Len(dl.log) = RetryAttempts
        /\ dl.result = FALSE

\* ---- C8 ----
\* Once the processing loop of a poll cycle is over, every item that passed the is_new filter in it
\* is in the tracker, however its processing ended; the tracker never loses
\* a member during a run; so an item handed to DownloadService.download is
\* either unknown to the tracker, hence not processed in an earlier cycle, or
\* a repetition within the listing of the cycle under way.
C8_FailedNeverRetried ==
    /\ []((pc = "process" /\ idx > Len(new_datasets))
            => Range(new_datasets) \subseteq tracker)
    /\ [][tracker \subseteq tracker']_vars
    /\ [][(pc = "process" /\ pc' = "download" /\ new_datasets[idx] \in tracker)
            => \E j \in 1..(idx - 1) : new_datasets[j] = new_datasets[idx]]_vars

\* the second cycle is over and has processed an item with success, after a
\* first cycle in which an item failed
C8_Witness ==
    /\ pc = "process"
    /\ idx > Len(new_datasets)
    /\ poll_count = 2
    /\ failed = 0
    /\ successful >= 1
    /\ sm.failed_downloads >= 1

\* ---- C9 ----
\* A signal delivered while the loop sleeps between cycles or processes an
\* item is followed by Stopped; and start() has returned only after a
\* save_state call made by _shutdown with the tracker's set and the counters
\* as they are then, which, unless that save met an I/O error, are what the
\* primary state file holds.
C9_SignalThenFinalSave ==
    /\ (~running /\ sig_pc \in {"Sleeping", "Processing"}) ~> (pc = "stopped")
    /\ [](pc = "stopped" =>
            /\ last_save.phase = "shutdown"
            /\ last_save.processed_datasets = get_all_processed(tracker)
            /\ last_save.successful_downloads = sm.successful_downloads
            /\ last_save.failed_downloads = sm.failed_downloads
            /\ (last_save.ok =>
                  /\ Parses(disk.state_file)
                  /\ Range(disk.state_file.doc.processed_datasets) = tracker
                  /\ disk.state_file.doc.successful_downloads = sm.successful_downloads
                  /\ disk.state_file.doc.failed_downloads = sm.failed_downloads))
    /\ [][pc' = "stopped" => pc = "shutdown" /\ last_save'.phase = "shutdown"]_vars

\* stopped after a signal that arrived in the middle of a download, the
\* tracker not empty, the final save written
C9_Witness ==
    /\ pc = "stopped"
    /\ sig_pc = "Processing"
    /\ tracker # {}
    /\ last_save.ok

\* ---- C10 ----
\* After a signal delivered during _wait_for_next_poll, at most one
\* one-second sleep comes to its end, whatever the interval, and start()
\* goes on to leave the loop and shut down: no poll cycle is started.
C10_PromptShutdown ==
    (~running /\ sig_pc = "Sleeping") =>
        /\ slept_after_stop <= 1
        /\ pc \in {"wait_check", "wait_sleep", "loop", "shutdown", "stopped"}

\* the signal arrived while a one-second sleep was under way; the loop has
\* been left before the last cycle the run would have made
C10_Witness ==
    /\ pc = "shutdown"
    /\ sig_pc = "Sleeping"
    /\ slept_after_stop = 1
    /\ poll_count < MaxPolls

\* ---- C11 ----
\* Whatever the point at which the process is killed, after the restart no
\* reference the tracker held before the kill is passed to
\* DownloadService.download, and the tracker holds all of them.
C11_Original ==
    /\ before_crash \subseteq tracker
    /\ (pc = "download" => dl.ref \notin before_crash)

\* ---- C12 ----
\* In the end-to-end scenario poll_once returns 2; after the cycle the tracker
\* holds the three references, the state the cycle persisted (if its save met
\* no I/O error) records the counters it found plus one success and one
\* failure, and the directory of the third item does not exist.
ScenarioExpected ==
    /\ (pc = "process" /\ idx > Len(new_datasets) => Len(new_datasets) = 2)
    /\ (pc = "wait_check" =>
          /\ tracker = Range(ScenarioListing)
          /\ store[ScenarioListing[3]] = "absent"
          /\ (last_save.ok =>
                /\ disk.state_file.doc.successful_downloads = script.successful_downloads + 1
                /\ disk.state_file.doc.failed_downloads = script.failed_downloads + 1
                /\ Range(disk.state_file.doc.processed_datasets) = Range(ScenarioListing)))

C13_NoExceptionEscapes ==
    /\ dl.phase \in {"idle", "fetching", "returned"}
    /\ dl.phase = "returned" =>
          /\ dl.result \in BOOLEAN
          /\ dl.status = (IF dl.result THEN "completed" ELSE "failed")
          /\ Len(dl.log) <= RetryAttempts
          /\ (Len(dl.log) = RetryAttempts /\ \A i \in 1..Len(dl.log) : dl.log[i] = "raise")
                => ~dl.result
          /\ dl.error_message = "Invalid dataset reference format" => ~dl.result

\* the fetch raised at each of its three attempts and download has returned
C13_Witness ==
    /\ dl.phase = "returned"
    /\ dl.log = <<"raise", "raise", "raise">>
    /\ dl.error_message = "RetryError"
    /\ ~dl.result

\* ---- C14 ----
\* As claimed: a call of download for an item whose declared size is more
\* than half of the reported free space returns False at once, the client
\* not called.
C14_Original ==
    [][\A r \in Refs, b \in Sizes, a \in Spaces, valid \in BOOLEAN :
          (DownloadCall(r, b, a, valid) /\ a # UnknownSpace /\ a < b * 2)
            => (dl'.phase = "returned" /\ ~dl'.result /\ dl'.log = <<>>)]_vars

\* The same for an item whose directory does not hold content already; the
\* failure is then the one of the space check.
C14_InsufficientSpace ==
    [][\A r \in Refs, b \in Sizes, a \in Spaces, valid \in BOOLEAN :
          (DownloadCall(r, b, a, valid) /\ a # UnknownSpace /\ a < b * 2
              /\ ~dataset_exists(store[r]))
            => /\ dl'.phase = "returned" /\ ~dl'.result /\ dl'.log = <<>>
               /\ dl'.status = "failed"
               /\ valid => dl'.error_message = "Insufficient disk space"
               /\ store' = store]_vars

\* download has returned from the space check, the client not called
C14_Witness ==
    /\ dl.phase = "returned"
    /\ dl.error_message = "Insufficient disk space"
    /\ dl.log = <<>>
    /\ ~dl.result
    /\ store[dl.ref] = "empty"

\* ---- C15 ----
\* A call of download for an item whose directory exists and is not empty
\* returns True, status 'completed', the client not called and the
\* directories as they were; so the next call finds the same directory and
\* does the same.
C15_ExistingShortCircuit ==
    [][\A r \in Refs, b \in Sizes, a \in Spaces :
          (DownloadCall(r, b, a, TRUE) /\ store[r] = "content")
            => /\ dl'.phase = "returned" /\ dl'.result /\ dl'.status = "completed"
               /\ dl'.log = <<>>
               /\ dl'.ref = r
               /\ store' = store]_vars

\* a later call has returned by the short-circuit
C15_Witness ==
    /\ calls >= 2
    /\ dl.phase = "returned"
    /\ dl.result
    /\ dl.status = "completed"
    /\ dl.log = <<>>
    /\ store[dl.ref] = "content"

C18_Original ==
    (dl.phase = "returned" /\ dl.result /\ dl.ref \in interrupted) => dl.log # <<>>

\* ---- C19 ----
\* Whatever happens while an item is processed, the cycle goes on with the
\* next item and the item is counted once, as successful or as failed; when
\* the cycle ends the two counters of the statistics have grown together by
\* the number of new items, the value poll_once returns.
C19_EveryItemCountedOnce ==
    /\ [](pc \in {"process", "download"}
            => /\ idx \in 1..(Len(new_datasets) + 1)
               /\ successful + failed = idx - 1)
    /\ [][(pc = "download" /\ dl.phase = "returned" /\ pc' # pc)
            => /\ pc' = "process"
               /\ idx' = idx + 1
               /\ new_datasets' = new_datasets
               /\ successful' + failed' = successful + failed + 1
               /\ dl.ref \in tracker']_vars
    /\ [][(pc = "process" /\ pc' = "polled")
            => (sm'.successful_downloads - sm.successful_downloads)
                 + (sm'.failed_downloads - sm.failed_downloads)
               = Len(new_datasets)]_vars

\* a cycle of two items at its end: both were downloaded, one counted as
\* failed because saving its metadata raised
C19_Witness ==
    /\ pc = "process"
    /\ Len(new_datasets) = 2
    /\ idx = 3
    /\ new_datasets[1] # new_datasets[2]
    /\ store[new_datasets[1]] = "content"
    /\ store[new_datasets[2]] = "content"
    /\ successful = 1
    /\ failed = 1

\* ---- C20 ----
\* A cycle whose listing raises does not end start(): it sleeps 60 seconds
\* and comes back to the loop test, so no cycle starts less than 60 seconds
\* after a cycle that raised; and with no shutdown requested the next cycle
\* does start.
C20_CooldownThenNextCycle ==
    /\ [][(pc = "poll" /\ pc' = "cooldown")
            => failed_cycle' = [raised |-> TRUE, slept |-> 0]]_vars
    /\ [][(pc = "cooldown" /\ pc' # pc) => pc' = "loop"]_vars
    /\ [](pc = "cooldown" => failed_cycle.raised)
    /\ []((pc = "poll" /\ failed_cycle.raised) => failed_cycle.slept >= CooldownSeconds)
    /\ ((pc = "cooldown" /\ poll_count < MaxPolls) ~> (pc = "poll" \/ ~running))

\* the cycle after one that raised has started, no shutdown requested
C20_Witness ==
    /\ pc = "poll"
    /\ running
    /\ poll_count = 2
    /\ failed_cycle = [raised |-> TRUE, slept |-> CooldownSeconds]

\* ---- C21 ----
\* The step that follows a poll cycle that did not raise, and the step that
\* follows the run loop, is a save_state call whose argument is the tracker's
\* whole set; when the call meets no I/O error the primary state file parses
\* and its identifiers are the tracker's set.
C21_SaveAfterCycleAndShutdown ==
    [][((pc = "polled" \/ pc = "shutdown") /\ pc' # pc)
         => /\ last_save'.phase = (IF pc = "polled" THEN "poll" ELSE "shutdown")
            /\ last_save'.processed_datasets = get_all_processed(tracker)
            /\ tracker' = tracker
            /\ (last_save'.ok
                  => /\ Parses(disk'.state_file)
                     /\ Range(disk'.state_file.doc.processed_datasets) = tracker')]_vars

\* the save after a cycle that processed two items has written them
C21_Witness ==
    /\ pc = "wait_check"
    /\ last_save.phase = "poll"
    /\ last_save.ok
    /\ Cardinality(tracker) = 2
    /\ Parses(disk.state_file)
    /\ Range(disk.state_file.doc.processed_datasets) = tracker

\* ---- C22 ----
\* A signal does not take start() out of the processing of an item: the
\* download under way returns and its item is then in the tracker, the loop
\* over the new items goes on to its end; a cycle begins only from the loop
\* test with running true, so none begins once the signal has been handled.
C22_InFlightItemFinishes ==
    /\ [][(pc \in {"process", "download"})
            => (pc' \in {"process", "download", "polled"})]_vars
    /\ [][(pc = "download" /\ pc' # pc)
            => (dl.phase = "returned" /\ dl.ref \in tracker' /\ pc' = "process")]_vars
    /\ [][(pc' = "poll" /\ pc # "poll") => (pc = "loop" /\ running)]_vars
    /\ [][~running => (running' = (pc = "init" /\ pc' # pc))]_vars
    /\ \A r \in Refs :
         (pc = "download" /\ ~running /\ dl.ref = r) ~> (pc = "process" /\ r \in tracker)

\* the signal came during the only cycle, while its items were processed;
\* both items are in the tracker and the loop has been left
C22_Witness ==
    /\ pc = "shutdown"
    /\ ~running
    /\ sig_pc = "Processing"
    /\ poll_count = 1
    /\ Cardinality(tracker) = 2

\* ---- C23 ----
\* When authenticate raises, start() exits at once: the step leaves the
\* process exited, nothing follows it, and the process has then started no
\* poll cycle, called neither the rate limiter nor the listing nor download,
\* and written nothing.
C23_AuthenticationFailureIsFatal ==
    /\ [][Start(FALSE) => pc' = "exited"]_vars
    /\ [][pc = "exited" => UNCHANGED vars]_vars
    /\ [](pc = "exited"
            => /\ poll_count = 0
               /\ total_requests = 0
               /\ dl = NoDownload
               /\ store = [r \in Refs |-> "absent"]
               /\ tracker = {}
               /\ last_save = NoSave
               /\ disk = EmptyDisk)

\* authenticate has raised and the process has exited
C23_Witness ==
    /\ pc = "exited"
    /\ running
    /\ poll_count = 0

\* ---- C24 ----
\* The sets of the documents renamed into place so far
SnapshotSets == {Range(snapshots[i].processed_datasets) : i \in 1..Len(snapshots)}

\* Whatever was done to the state files (overwritten with something that
\* does not parse, deleted, a process killed in the middle of a save), a file
\* that parses holds a document an earlier save_state wrote, and load_state
\* returns the set of the primary when that parses, else the set of the
\* backup when that parses, else the empty set: never a reference outside the
\* sets written before.
C24_LoadReturnsOnlySavedSets ==
    /\ [](\A f \in StateFiles : Parses(disk[f]) => disk[f].doc \in Range(snapshots))
    /\ [](ret.op = "load" => ret.processed \in SnapshotSets \cup {{}})
    /\ [][LoadStateCall
            => ret'.processed =
                 IF Parses(disk.state_file)
                 THEN Range(disk.state_file.doc.processed_datasets)
                 ELSE IF Parses(disk.backup_file)
                 THEN Range(disk.backup_file.doc.processed_datasets)
                 ELSE {}]_vars

\* the primary was damaged after two saves of different sets: load_state
\* returned the older set, which the backup held, and not the newer one
C24_Witness ==
    /\ ret.op = "load"
    /\ ret.from = "backup"
    /\ Len(snapshots) = 2
    /\ ret.processed = Range(snapshots[1].processed_datasets)
    /\ ret.processed # Range(snapshots[2].processed_datasets)
    /\ ret.processed # {}

\* ---- C25 ----
\* As claimed: at every point the primary file, when it parses, holds the
\* last document renamed into place, and the backup file, when it exists,
\* holds the document renamed into place just before that one.
C25_Original ==
    /\ Parses(disk.state_file)
         => (snapshots # <<>> /\ disk.state_file.doc = snapshots[Len(snapshots)])
    /\ Exists(disk.backup_file)
         => /\ Len(snapshots) >= 2
            /\ disk.backup_file = JsonFile(snapshots[Len(snapshots) - 1])

\* At every point the primary file is absent while nothing was written and
\* otherwise holds the last document renamed into place; the backup file,
\* when it parses, holds that document or the one renamed into place just
\* before it, and holds the one before when the last call was a save_state
\* that returned True over an existing primary.
C25_PrimaryLatestBackupPrior ==
    /\ disk.state_file = (IF snapshots = <<>> THEN Absent
                          ELSE JsonFile(snapshots[Len(snapshots)]))
    /\ Parses(disk.backup_file)
         => \E i \in 1..Len(snapshots) :
               /\ i >= Len(snapshots) - 1
               /\ disk.backup_file.doc = snapshots[i]
    /\ (ret.op = "save" /\ ret.ok /\ sm_pc = "idle" /\ Len(snapshots) >= 2)
         => disk.backup_file = JsonFile(snapshots[Len(snapshots) - 1])

\* a second save_state has returned True: two different documents on disk
C25_Witness ==
    /\ ret.op = "save"
    /\ ret.ok
    /\ sm_pc = "idle"
    /\ Len(snapshots) = 2
    /\ disk.state_file = JsonFile(snapshots[2])
    /\ disk.backup_file = JsonFile(snapshots[1])
    /\ snapshots[1] # snapshots[2]

\* ---- C26 ----
\* As claimed: no step, a kill followed by a restart included, lowers a
\* counter of the StateManager.
C26_Original ==
    [][/\ sm'.successful_downloads >= sm.successful_downloads
       /\ sm'.failed_downloads >= sm.failed_downloads]_vars

\* Within a run no step lowers a counter of the StateManager; the counters
\* of the primary state file never go down from one document to the next;
\* and a restart takes the counters of the primary state file (zero when
\* there is none), so what was added in memory since the last save that
\* went through is not in them.
C26_CountersMonotoneWithinRun ==
    /\ [][crashes' = crashes
            => /\ sm'.successful_downloads >= sm.successful_downloads
               /\ sm'.failed_downloads >= sm.failed_downloads]_vars
    /\ [][(Parses(disk.state_file) /\ Parses(disk'.state_file))
            => /\ disk'.state_file.doc.successful_downloads
                    >= disk.state_file.doc.successful_downloads
               /\ disk'.state_file.doc.failed_downloads
                    >= disk.state_file.doc.failed_downloads]_vars
    /\ [][crashes' # crashes
            => IF Parses(disk'.state_file)
               THEN /\ sm'.successful_downloads = disk'.state_file.doc.successful_downloads
                    /\ sm'.failed_downloads = disk'.state_file.doc.failed_downloads
               ELSE /\ sm'.successful_downloads = 0
                    /\ sm'.failed_downloads = 0]_vars

\* the process was killed and started again, and goes on from the counters
\* of the state file: a second item has been counted on top of them
C26_Witness ==
    /\ crashes = 1
    /\ pc = "polled"
    /\ Parses(disk.state_file)
    /\ disk.state_file.doc.successful_downloads = 1
    /\ disk.state_file.doc.failed_downloads = 0
    /\ sm.successful_downloads = 1
    /\ sm.failed_downloads = 1

\* ---- C27 ----
\* The first wait_if_needed call returns at the time it was entered.  A later
\* call asks for a sleep of min_interval less the time since the call before
\* recorded, when that is positive, and for none otherwise, in which case it
\* returns at once; and any call returns min_interval or more after the call
\* before it returned.
C27_MinIntervalBetweenCalls ==
    /\ [][(WaitIfNeededCall /\ last_request_time = None)
            => (lim_pc' = "idle" /\ lim'.returned = now /\ lim'.wait_time = 0)]_vars
    /\ [][(WaitIfNeededCall /\ last_request_time # None)
            => /\ lim'.wait_time = (IF now - last_request_time < MinInterval
                                    THEN MinInterval - (now - last_request_time)
                                    ELSE 0)
               /\ (lim'.wait_time = 0) = (lim_pc' = "idle")
               /\ (lim'.wait_time = 0) => lim'.returned = now]_vars
    /\ []((lim_pc = "idle" /\ lim.prev_returned # None)
            => lim.returned - lim.prev_returned >= MinInterval)
    /\ []((lim_pc = "idle" /\ lim.returned # None)
            => (lim.returned >= lim.entered + lim.wait_time
                  /\ last_request_time = lim.returned))

\* a call entered one second after the call before it has slept and returned
C27_Witness ==
    /\ lim_pc = "idle"
    /\ lim.prev_returned # None
    /\ lim.entered = lim.prev_returned + 1
    /\ lim.wait_time = MinInterval - 1
    /\ lim.returned = lim.prev_returned + MinInterval
    /\ total_wait_time = lim.wait_time

\* ---- C28 ----
\* RateLimiter.total_requests moves only in the step that makes the listing
\* call of a cycle, and by one, whether the listing returns or raises; so it
\* equals the number of cycles started, less the one whose listing call is
\* still to be made.
C28_OneLimiterCallPerListing ==
    /\ [][(pc = "poll" /\ pc' # pc)
            => (total_requests' = total_requests + 1
                  /\ pc' \in {"cooldown", "polled", "process"})]_vars
    /\ [][total_requests' # total_requests => (pc = "poll" /\ pc' # pc)]_vars
    /\ [](total_requests = (IF pc = "poll" THEN poll_count - 1 ELSE poll_count))

\* two cycles were started, the listing of the second raised
C28_Witness ==
    /\ pc = "cooldown"
    /\ poll_count = 2
    /\ total_requests = 2

\* ---- C29 ----
\* As claimed: the wait after the k-th attempt of a download failed is
\* min(60, 4 * 2^(k-1)) seconds: 4 after the first, 8 after the second.
C29_Original ==
    \A k \in 1..Len(dl.waits) :
        dl.waits[k] = (IF 4 * 2 ^ (k - 1) < 60 THEN 4 * 2 ^ (k - 1) ELSE 60)

\* ---- C30 ----
\* When download has returned, the status of the item is 'completed' if it
\* returned True and 'failed', with an error message, if it returned False,
\* on every path; while the client is being called the status is
\* 'downloading'; and a status 'completed' or 'failed' changes only when
\* download is called again.
C30_StatusTerminalOnReturn ==
    /\ [](dl.phase = "returned"
            => /\ dl.status \in {"completed", "failed"}
               /\ (dl.status = "completed") = dl.result
               /\ (dl.status = "failed") = ~dl.result
               /\ ~dl.result => dl.error_message # "")
    /\ [](dl.phase = "fetching" => dl.status = "downloading")
    /\ [][(dl.status \in {"completed", "failed"} /\ dl'.status # dl.status)
            => calls' = calls + 1]_vars

\* a download that was retried after an exception and completed, after
\* another download had returned
C30_Witness ==
    /\ calls >= 2
    /\ dl.phase = "returned"
    /\ dl.log = <<"raise", "true">>
    /\ dl.status = "completed"
    /\ dl.result

\* ---- C31 ----
\* Whether the save after a cycle goes through or not, start() goes on to
\* the wait between cycles with the tracker as it was, and from there, with
\* no shutdown requested, to the next cycle; and a save that goes through
\* after one that did not leaves the whole set of the tracker in the primary
\* state file.
C31_FailedSaveDoesNotAbort ==
    /\ [][(pc = "polled" /\ pc' # pc)
            => (pc' = "wait_check" /\ tracker' = tracker /\ running' = running)]_vars
    /\ [][(pc \in {"polled", "shutdown"} /\ pc' # pc
             /\ last_save.phase = "poll" /\ ~last_save.ok /\ last_save'.ok)
            => /\ Parses(disk'.state_file)
               /\ Range(disk'.state_file.doc.processed_datasets) = tracker'
               /\ last_save.processed_datasets \subseteq tracker']_vars
    /\ ((pc = "wait_check" /\ last_save.phase = "poll" /\ ~last_save.ok
           /\ poll_count < MaxPolls)
          ~> (pc = "poll" \/ ~running))

\* the save of the first cycle did not go through (no primary file was there
\* for the second to copy); the save of the second cycle wrote both items
C31_Witness ==
    /\ pc = "wait_check"
    /\ poll_count = 2
    /\ last_save.ok
    /\ disk.backup_file = Absent
    /\ Cardinality(tracker) = 2
    /\ Parses(disk.state_file)
    /\ Range(disk.state_file.doc.processed_datasets) = tracker

\* ---- C32 ----
\* is_new_dataset and get_all_processed leave the Tracker's set as it was and
\* answer from it; and whatever the caller adds to or removes from the set
\* get_all_processed returned, the Tracker's set stays as it was, so every
\* later is_new_dataset and get_all_processed answers as before.
C32_QueriesAndCopiesLeaveTheSet ==
    /\ [][\A r \in Refs :
            IsNewDataset(r) => (tracker' = tracker /\ tr_ret'.value = (r \notin tracker))]_vars
    /\ [][GetAllProcessed
            => (tracker' = tracker /\ tr_ret'.value = tracker /\ held'.value = tracker)]_vars
    /\ [][(\E r \in Refs : CallerAdds(r) \/ CallerRemoves(r)) => tracker' = tracker]_vars
    /\ [](~held.shared)

\* the caller removed a member from the set it was given; is_new_dataset,
\* called afterwards, still answers that the member is not new
C32_Witness ==
    /\ held.taken
    /\ tr_ret.op = "is_new_dataset"
    /\ tr_ret.ref \in tracker
    /\ tr_ret.ref \notin held.value
    /\ ~tr_ret.value

\* ---- C33 ----
\* After load_processed(refs) the Tracker's set is refs, whatever it was;
\* remove_processed(r) returns True exactly when r was a member, and after it
\* r is new and the other members are the ones there were.
C33_LoadReplacesRemoveReports ==
    /\ [][\A S \in SUBSET Refs : LoadProcessed(S) => tracker' = S]_vars
    /\ [](tr_ret.op = "load_processed" => tracker = tr_ret.value)
    /\ [][\A r \in Refs :
            RemoveProcessed(r)
              => /\ tr_ret'.value = (r \in tracker)
                 /\ is_new_dataset(tracker', r)
                 /\ tracker' \ {r} = tracker \ {r}]_vars

\* remove_processed has removed one of two members and returned True
C33_Witness ==
    /\ tr_ret.op = "remove_processed"
    /\ tr_ret.value
    /\ tr_ret.ref \notin tracker
    /\ Cardinality(tracker) = 1


\* ---- C34 ----
\* As claimed: a shutdown request (a signal, or stop(): both assign
\* running = False) is never lost, whenever it is delivered after the
\* constructor has registered the handlers, before start() included: once one
\* was delivered, the loop begins no further poll cycle.
C34_Original ==
    [][(sig_pc # "none" /\ pc = "loop") => pc' # "poll"]_vars

\* ---- C35 ----
\* Once a save_state has succeeded, a later save_state cut by a kill at any
\* of its steps leaves a state directory from which load_state, after the
\* restart, returns the set of the last successful save, or (when the kill
\* came after the rename) the set that was being saved: never the empty set
\* unless that was saved, never another set.
C35_CutSaveLoadsOldOrNew ==
    /\ [](sm_pc # "idle" /\ snapshots # <<>>
            => LoadState(disk, NewStateManager).processed
                 = Range(snapshots[Len(snapshots)].processed_datasets))
    /\ [][(sm_pc = "save_rename" /\ sm_pc' = "idle" /\ ret'.op = "save")
            => LoadState(disk', NewStateManager).processed = frame.processed_datasets]_vars
    /\ []((ret.op = "load" /\ ret.restarted_at \notin {"none", "idle"} /\ snapshots # <<>>)
            => /\ ret.processed = Range(snapshots[Len(snapshots)].processed_datasets)
               /\ ret.from = "main")

\* two saves went through, a third was killed while the temporary file was
\* written, and load_state returned the set of the second
C35_Witness ==
    /\ ret.op = "load"
    /\ ret.restarted_at = "save_dump"
    /\ Len(snapshots) = 2
    /\ ret.processed = Range(snapshots[2].processed_datasets)
    /\ ret.processed # Range(snapshots[1].processed_datasets)
    /\ disk.temp_file = Partial

\* ---- C36 ----
\* As claimed: when the backup file parses and the primary file does not, the
\* construction of the orchestrator leaves the tracker holding the set of the
\* backup file, however the repair copy goes; and the tracker is left
\* without a recorded set only when neither file parses.
C36_Original ==
    [][(pc = "constructing" /\ pc' = "init")
         => /\ (~Parses(disk.state_file) /\ Parses(disk.backup_file))
                  => tracker' = Range(disk.backup_file.doc.processed_datasets)
            /\ Parses(disk.state_file)
                  => tracker' = Range(disk.state_file.doc.processed_datasets)
            /\ (~Parses(disk.state_file) /\ ~Parses(disk.backup_file))
                  => tracker' = {}]_vars

\* ---- C37 ----
\* As claimed: within one poll cycle a reference is passed to download at
\* most once (the reference download is entered with is none of those the
\* loop has gone through already) and is counted at most once (the two local
\* counters together never exceed the number of distinct references of the
\* cycle), whatever the listing repeats.
C37_Original ==
    /\ [][(pc = "process" /\ pc' = "download")
            => dl'.ref \notin {new_datasets[i] : i \in 1..(idx - 1)}]_vars
    /\ [](successful + failed <= Cardinality(Range(new_datasets)))

\* ---- C38 ----
\* As claimed: a save_state that returns False leaves the primary file as the
\* call found it, and so load_state afterwards returns the set it would have
\* returned before the call.
C38_Original ==
    [][(sm_pc # "idle" /\ sm_pc' = "idle" /\ ret'.op = "save" /\ ~ret'.ok)
         => /\ disk'.state_file = frame.before
            /\ LoadState(disk', sm').processed = frame.would_load]_vars

\* ---- C39 ----
\* A poll cycle that raises changes, of the tracker set, the three statistics
\* of the StateManager (successful_downloads, failed_downloads,
\* last_poll_timestamp), the state files and poll_count, only poll_count,
\* which the start of the cycle has advanced by one: the step that raises and
\* the cooldown after it leave all of them alone, and no save_state is made.
C39_RaisingCycleChangesPollCountOnly ==
    /\ [][(pc = "loop" /\ pc' = "poll")
            => /\ poll_count' = poll_count + 1
               /\ tracker' = tracker /\ sm' = sm /\ disk' = disk]_vars
    /\ [][((pc = "poll" /\ pc' = "cooldown") \/ pc = "cooldown")
            => /\ tracker' = tracker /\ sm' = sm /\ disk' = disk
               /\ poll_count' = poll_count /\ last_save' = last_save]_vars
    /\ [](pc = "cooldown" => sm.last_poll_timestamp # poll_count)

\* the first cycle processed an item and was saved; the second raised and its
\* cooldown is over: the tracker, the statistics and the file are those of
\* the first cycle
C39_Witness ==
    /\ pc = "loop"
    /\ failed_cycle.raised
    /\ failed_cycle.slept = CooldownSeconds
    /\ poll_count = 2
    /\ tracker # {}
    /\ sm.last_poll_timestamp = 1
    /\ sm.successful_downloads = 1
    /\ Parses(disk.state_file)
    /\ disk.state_file.doc = StateData(tracker, sm)

\* ---- C40 ----
\* Within one run of the service (which calls neither remove_processed nor
\* clear) the tracker set never loses a member, and whenever the primary
\* state file parses, the set it records is a subset of the tracker set.
C40_TrackerGrowsAndCoversFile ==
    /\ [][crashes' = crashes => tracker \subseteq tracker']_vars
    /\ [](Parses(disk.state_file)
            => Range(disk.state_file.doc.processed_datasets) \subseteq tracker)

\* the first cycle was saved with one reference, the second has processed
\* another that no save has written yet
C40_Witness ==
    /\ poll_count = 2
    /\ pc = "polled"
    /\ Cardinality(tracker) = 2
    /\ Parses(disk.state_file)
    /\ Cardinality(Range(disk.state_file.doc.processed_datasets)) = 1

====
